---- MODULE Spec2Model ----
(***************************************************************************)
(* A model of openfoamparser (src/src/lib.rs): the topology builder of     *)
(* FoamMesh::new, the query methods of FoamMesh, the list readers          *)
(* (parse_scalars, parse_points, parse_faces), the boundary reader         *)
(* (parse_boundary) and the field reader (parse_internal_field).           *)
(*                                                                         *)
(* Vectors are sequences; the 0-based index k of the source is position    *)
(* k + 1 of the sequence.  A panic (index out of bounds, unwrap of None,   *)
(* arithmetic overflow) is the outcome "abort".                            *)
(***************************************************************************)
EXTENDS Integers, Sequences, FiniteSets, Bags

VARIABLES
    \* ---- FoamMesh::new and the FoamMesh fields
    mesh_pc,          \* "input" | "built" | "err" | "abort"
    boundary,         \* FoamMesh.boundary: patch name -> Boundary
    faces_len,        \* FoamMesh.faces.len()
    owners,           \* FoamMesh.owners
    neighbors_read,   \* the neighbour list as parse_scalars returns it
    neighbors,        \* FoamMesh.neighbors (the list extended and resolved)
    cell_faces,       \* FoamMesh.cell_faces
    cell_neighbors,   \* FoamMesh.cell_neighbors
    num_inner_faces,  \* FoamMesh.num_inner_faces
    num_cells,        \* FoamMesh.num_cells
    \* ---- parse_scalars, parse_points, parse_faces
    list_pc,          \* "input", or the reader that has run
    content,          \* the lines of the file after the skipped header
    list_result,      \* what the reader returned
    \* ---- parse_boundary
    bd_pc,            \* "run", or how the read ended
    content_len,      \* content.len(): the lines after the skipped header
    i,                \* the index of the line the loop is at
    bd,               \* the patch map being filled
    in_boundary_field,
    in_patch_field,
    current_patch,
    current_type,
    current_num_faces,
    current_start_face,
    bid,
    declared,         \* history: the keys the lines of the patch block at hand
                      \* (the last one, between blocks) have given a value
    \* ---- parse_internal_field
    field_pc,         \* "input", or the element decoder the read ran with
    field_content,    \* the lines of the field file
    field_result      \* what the reader returned

meshVars == <<mesh_pc, boundary, faces_len, owners, neighbors_read, neighbors, cell_faces,
              cell_neighbors, num_inner_faces, num_cells>>

listVars == <<list_pc, content, list_result>>

bdVars == <<bd_pc, content_len, i, bd, in_boundary_field, in_patch_field,
            current_patch, current_type, current_num_faces, current_start_face, bid,
            declared>>

fieldVars == <<field_pc, field_content, field_result>>

vars == <<meshVars, listVars, bdVars, fieldVars>>

----------------------------------------------------------------------------
(* Bounds of the model *)

\* the longest owner list (number of faces of the mesh)
MaxFaces == 2
\* the largest cell index found in the owner and neighbour files
MaxCell == 1
\* the most lines a list file holds after its header
MaxLines == 4
\* the most lines a boundary file holds after its header
MaxBoundaryLines == 9
\* the most lines a field file holds
MaxFieldLines == 5

(* Program constants *)

\* the neighbour entry appended for every face past the neighbour list
Placeholder == -10
\* the boundary_id of the first patch of a boundary file
FirstBoundaryId == -10

\* the patch names of the boundary files considered, and a name in none
PatchNames == {"a", "b"}
None == "None"

----------------------------------------------------------------------------
(* Helpers *)

SeqsUpTo(S, n) == UNION {[1..k -> S] : k \in 0..n}

\* v[k] of the source, k counted from 0
At(s, k) == s[k + 1]

MaxOf(S) == CHOOSE x \in S : \A y \in S : y <= x

Range(s) == {s[k] : k \in 1..Len(s)}

\* the orders in which the entries of a set can be visited
Orders(S) == {o \in [1..Cardinality(S) -> S] : Range(o) = S}

SeqToBag(s) == [x \in Range(s) |-> Cardinality({k \in 1..Len(s) : s[k] = x})]

\* the outcome of a call: a value, or a panic
Ret(v) == <<"ok", v>>
Aborted == <<"abort">>

----------------------------------------------------------------------------
(* FoamMesh::new: the topology builder *)

\* a Boundary as parse_boundary returns it
Boundary(t, n, s, id) ==
    [boundary_type |-> t, num_faces |-> n, start_face |-> s, boundary_id |-> id]

\* neighbors.extend(vec![-10; num_faces - num_inner_faces])
ExtendNeighbors(nb, num_faces) ==
    nb \o [k \in 1..(num_faces - Len(nb)) |-> Placeholder]

\* for i in b.start_face .. b.start_face + b.num_faces { neighbors[i] = b.boundary_id }
PatchInRange(nb, b) == b.num_faces = 0 \/ b.start_face + b.num_faces <= Len(nb)

SetPatch(nb, b) ==
    [k \in 1..Len(nb) |->
        IF b.start_face <= k - 1 /\ k - 1 < b.start_face + b.num_faces
        THEN b.boundary_id ELSE nb[k]]

\* for b in boundary.values(), visited in the order ord of the map's keys
RECURSIVE SetBoundaryFaces(_, _, _, _)
SetBoundaryFaces(nb, pm, ord, j) ==
    IF j > Len(ord) THEN Ret(nb)
    ELSE IF ~PatchInRange(nb, pm[ord[j]]) THEN Aborted
    ELSE SetBoundaryFaces(SetPatch(nb, pm[ord[j]]), pm, ord, j + 1)

\* max(num_cells as i64, *neighbors.iter().max().unwrap()) as usize + 1
CellNum(nc, nb) == MaxOf({nc} \cup Range(nb)) + 1

\* the owner loop leaving out the faces of the owner file's first cell entry
RECURSIVE OwnerLoop_SkipFirst(_, _, _)
OwnerLoop_SkipFirst(cf, ow, k) ==
    IF k >= Len(ow) THEN cf
    ELSE OwnerLoop_SkipFirst(
             IF k = 0 /\ Len(ow) > 1
             THEN [cf EXCEPT ![At(ow, 1)] = Append(@, k)]
             ELSE [cf EXCEPT ![At(ow, k)] = Append(@, k)], ow, k + 1)

\* for (i, &owner) in owners.iter().enumerate() { cell_faces[owner].push(i) }
RECURSIVE OwnerLoop(_, _, _)
OwnerLoop(cf, ow, k) ==
    IF k >= Len(ow) THEN cf
    ELSE OwnerLoop([cf EXCEPT ![At(ow, k)] = Append(@, k)], ow, k + 1)

\* NeighborStep without the push of the owner onto the neighbour's list
NeighborStep_NoOwnerPush(st, ow, nb, k) ==
    LET neighbor == At(nb, k)
        owner == At(ow, k)
        cf1 == IF neighbor >= 0
               THEN [st.cell_faces EXCEPT ![neighbor] = Append(@, k)]
               ELSE st.cell_faces
    IN  [cell_faces |-> cf1,
         cell_neighbors |-> [st.cell_neighbors EXCEPT ![owner] = Append(@, neighbor)]]

\* one turn of the loop over neighbors.iter().enumerate()
NeighborStep(st, ow, nb, k) ==
    LET neighbor == At(nb, k)
        owner == At(ow, k)
        cf1 == IF neighbor >= 0
               THEN [st.cell_faces EXCEPT ![neighbor] = Append(@, k)]
               ELSE st.cell_faces
        cn1 == IF neighbor >= 0
               THEN [st.cell_neighbors EXCEPT ![neighbor] = Append(@, owner)]
               ELSE st.cell_neighbors
    IN  [cell_faces |-> cf1,
         cell_neighbors |-> [cn1 EXCEPT ![owner] = Append(@, neighbor)]]

RECURSIVE NeighborLoop(_, _, _, _)
NeighborLoop(st, ow, nb, k) ==
    IF k >= Len(nb) THEN st
    ELSE NeighborLoop(NeighborStep(st, ow, nb, k), ow, nb, k + 1)

\* _construct_cells
ConstructCells(ow, nb, nc) ==
    LET cell_num == CellNum(nc, nb)
        empty == [c \in 0..(cell_num - 1) |-> <<>>]
    IN  NeighborLoop([cell_faces |-> OwnerLoop(empty, ow, 0),
                      cell_neighbors |-> empty], ow, nb, 0)

\* let num_cells: usize = *owners.iter().max().unwrap()
NumCellsOf(ow) == MaxOf(Range(ow))

\* FoamMesh::new on the readers' results; ord is the order in which the
\* HashMap hands out the patches, points_ok whether parse_points succeeds
NewMesh(pm, ow, nb, ord, points_ok) ==
    IF ow = <<>> THEN Aborted                  \* max() of nothing, unwrap
    ELSE IF Len(ow) < Len(nb) THEN Aborted     \* num_faces - num_inner_faces
    ELSE
      LET ext == SetBoundaryFaces(ExtendNeighbors(nb, Len(ow)), pm, ord, 1)
      IN  IF ext = Aborted THEN Aborted
          ELSE IF ~points_ok THEN <<"err">>
          ELSE LET cells == ConstructCells(ow, ext[2], NumCellsOf(ow))
               IN  Ret([neighbors |-> ext[2],
                        cell_faces |-> cells.cell_faces,
                        cell_neighbors |-> cells.cell_neighbors,
                        num_inner_faces |-> Len(nb),
                        num_cells |-> NumCellsOf(ow)])

----------------------------------------------------------------------------
(* The queries of FoamMesh *)

num_inner_faces_get == num_inner_faces

num_cells_get == num_cells

\* self.cell_neighbors.get(cell_id)
cell_neighbor_cells(cell_id) ==
    IF cell_id \in DOMAIN cell_neighbors THEN <<"Some", cell_neighbors[cell_id]>>
    ELSE <<"None">>

is_cell_on_boundary(cell_id, bd_name) ==
    IF cell_id >= num_cells THEN Ret(FALSE)
    ELSE IF bd_name # None /\ bd_name \notin DOMAIN boundary THEN Ret(FALSE)
    ELSE IF cell_id \notin DOMAIN cell_neighbors THEN Aborted
    ELSE LET id == IF bd_name # None THEN boundary[bd_name].boundary_id ELSE 0
             ns == cell_neighbors[cell_id]
         IN  Ret(\E j \in 1..Len(ns) :
                    \/ bd_name = None /\ ns[j] < 0
                    \/ bd_name # None /\ ns[j] = id)

\* is_face_on_boundary taking a neighbour of 0 for a boundary
is_face_on_boundary_NonPositive(face_id, bd_name) ==
    IF face_id >= faces_len THEN Ret(FALSE)
    ELSE IF bd_name # None /\ bd_name \notin DOMAIN boundary THEN Ret(FALSE)
    ELSE IF face_id >= Len(neighbors) THEN Aborted
    ELSE IF bd_name # None
         THEN Ret(At(neighbors, face_id) = boundary[bd_name].boundary_id)
         ELSE Ret(At(neighbors, face_id) <= 0)

is_face_on_boundary(face_id, bd_name) ==
    IF face_id >= faces_len THEN Ret(FALSE)
    ELSE IF bd_name # None /\ bd_name \notin DOMAIN boundary THEN Ret(FALSE)
    ELSE IF face_id >= Len(neighbors) THEN Aborted
    ELSE IF bd_name # None
         THEN Ret(At(neighbors, face_id) = boundary[bd_name].boundary_id)
         ELSE Ret(At(neighbors, face_id) < 0)

\* boundary_cells walking the patch from its last face to its first
boundary_cells_Reversed(bd_name) ==
    IF bd_name \in DOMAIN boundary
    THEN LET pm == boundary[bd_name]
         IN  IF pm.num_faces > 0 /\ pm.start_face + pm.num_faces > Len(owners)
             THEN Aborted
             ELSE Ret([k \in 1..pm.num_faces |->
                          At(owners, pm.start_face + pm.num_faces - k)])
    ELSE Ret(<<>>)

boundary_cells(bd_name) ==
    IF bd_name \in DOMAIN boundary
    THEN LET pm == boundary[bd_name]
         IN  IF pm.num_faces > 0 /\ pm.start_face + pm.num_faces > Len(owners)
             THEN Aborted
             ELSE Ret([k \in 1..pm.num_faces |-> At(owners, pm.start_face + k - 1)])
    ELSE Ret(<<>>)

----------------------------------------------------------------------------
(* The mesh specification: the readers' results, then FoamMesh::new *)

\* the ids parse_boundary can give the patches of a file
BoundaryIds == {FirstBoundaryId - j : j \in 0..(Cardinality(PatchNames) - 1)}

PatchRecords ==
    {Boundary("wall", n, s, id) : n \in 0..MaxFaces, s \in 0..MaxFaces, id \in BoundaryIds}

\* the boundary files considered for a mesh declare no patch, or one that
\* stays in the map (its id is the second one when an earlier patch of the
\* same name was replaced)
PatchSets == {{}} \cup {{n} : n \in PatchNames}

\* the maps parse_boundary can return: no two patches share an id
BoundaryMaps ==
    UNION {{m \in [D -> PatchRecords] :
               \A x, y \in D : x # y => m[x].boundary_id # m[y].boundary_id}
           : D \in PatchSets}

\* the lengths of the face list considered next to an owner list
FaceLens(ow) == {n \in {Len(ow) - 1, Len(ow), Len(ow) + 1} : n >= 0}

\* no list file is being read
ListIdle == list_pc = "off" /\ content = <<>> /\ list_result = <<>>

\* no boundary file is being read
BdIdle ==
    /\ bd_pc = "off" /\ content_len = 0 /\ i = 0 /\ bd = <<>>
    /\ in_boundary_field = FALSE /\ in_patch_field = FALSE
    /\ current_patch = "" /\ current_type = "" /\ current_num_faces = 0
    /\ current_start_face = 0 /\ bid = 0 /\ declared = {}

\* no field file is being read
FieldIdle == field_pc = "off" /\ field_content = <<>> /\ field_result = <<>>

MeshInit ==
    /\ ListIdle
    /\ BdIdle
    /\ FieldIdle
    /\ mesh_pc = "input"
    /\ boundary \in BoundaryMaps
    /\ owners \in SeqsUpTo(0..MaxCell, MaxFaces)
    /\ neighbors_read \in SeqsUpTo(-1..MaxCell, MaxFaces)
    /\ faces_len \in FaceLens(owners)
    /\ neighbors = <<>>
    /\ cell_faces = <<>>
    /\ cell_neighbors = <<>>
    /\ num_inner_faces = 0
    /\ num_cells = 0

New ==
    /\ mesh_pc = "input"
    /\ UNCHANGED <<listVars, bdVars, fieldVars>>
    /\ \E ord \in Orders(DOMAIN boundary), points_ok \in BOOLEAN :
         LET r == NewMesh(boundary, owners, neighbors_read, ord, points_ok)
         IN  IF r[1] = "ok"
             THEN /\ mesh_pc' = "built"
                  /\ neighbors' = r[2].neighbors
                  /\ cell_faces' = r[2].cell_faces
                  /\ cell_neighbors' = r[2].cell_neighbors
                  /\ num_inner_faces' = r[2].num_inner_faces
                  /\ num_cells' = r[2].num_cells
                  /\ UNCHANGED <<boundary, faces_len, owners, neighbors_read>>
             ELSE /\ mesh_pc' = r[1]
                  /\ UNCHANGED <<boundary, faces_len, owners, neighbors_read, neighbors, cell_faces,
                                 cell_neighbors, num_inner_faces, num_cells>>

MeshNext == New

SpecMesh == MeshInit /\ [][MeshNext]_vars

----------------------------------------------------------------------------
(* The list readers: parse_scalars, parse_points, parse_faces *)

\* the lines of the list files considered
ListLines ==
    {"0", "1", "2", "-1", "(", "(0 0 0)", "(0 0)", "1(5)", "2(7 5)", "2(5)"}

Some(v) == <<v>>
Nothing == <<>>

\* line.parse::<usize>()
ParseUsize(line) ==
    CASE line = "0" -> Some(0) [] line = "1" -> Some(1) [] line = "2" -> Some(2)
      [] line = "3" -> Some(3)
      [] OTHER -> Nothing

\* line.parse::<i64>()
ParseI64(line) == IF line = "-1" THEN Some(-1) ELSE ParseUsize(line)

\* line.parse::<T>() for the element type T of the owner and neighbour files
ParseElem(T, line) == IF T = "usize" THEN ParseUsize(line) ELSE ParseI64(line)

\* RE_NUM.captures_iter(&line): the runs of digits of the line, in order
NumTokens(line) ==
    CASE line = "0" -> <<0>> [] line = "1" -> <<1>> [] line = "2" -> <<2>>
      [] line = "-1" -> <<1>>
      [] line = "(0 0 0)" -> <<0, 0, 0>> [] line = "(0 0)" -> <<0, 0>>
      [] line = "1(5)" -> <<1, 5>> [] line = "2(7 5)" -> <<2, 7, 5>>
      [] line = "2(5)" -> <<2, 5>>
      [] OTHER -> <<>>

\* line.starts_with('(') && line.ends_with(')')
BracketShape(line) == line \in {"(0 0 0)", "(0 0)"}

\* parse_point3(line): the three floats between the brackets
ParsePoint3(line) == IF line = "(0 0 0)" THEN Some(<<0, 0, 0>>) ELSE Nothing

CountError(expected, parsed) == <<"count_mismatch", expected, parsed>>
LineError(k) == <<"malformed_line", k>>

\* the loop of parse_scalars from line k on
RECURSIVE ScalarsLoop(_, _, _, _, _)
ScalarsLoop(T, c, k, data, num_expected) ==
    IF k >= Len(c) THEN
        IF Len(data) # num_expected THEN CountError(num_expected, Len(data))
        ELSE Ret(data)
    ELSE IF num_expected > 0 THEN
        ScalarsLoop(T, c, k + 1,
                    IF ParseElem(T, At(c, k)) # Nothing
                    THEN Append(data, ParseElem(T, At(c, k))[1]) ELSE data,
                    num_expected)
    ELSE IF ParseUsize(At(c, k)) # Nothing THEN
        ScalarsLoop(T, c, k + 1, data, ParseUsize(At(c, k))[1])
    ELSE ScalarsLoop(T, c, k + 1, data, num_expected)

parse_scalars(T, c) == ScalarsLoop(T, c, 0, <<>>, 0)

\* the loop of parse_faces from line k on
RECURSIVE FacesLoop(_, _, _, _)
FacesLoop(c, k, data, num_faces_expected) ==
    IF k >= Len(c) THEN
        IF Len(data) # num_faces_expected
        THEN CountError(num_faces_expected, Len(data))
        ELSE Ret(data)
    ELSE IF num_faces_expected > 0 THEN
        LET vals == NumTokens(At(c, k))
        IN  IF Len(vals) = 0 THEN FacesLoop(c, k + 1, data, num_faces_expected)
            ELSE IF Len(vals) # vals[1] + 1 THEN LineError(k)
            ELSE FacesLoop(c, k + 1, Append(data, Tail(vals)), num_faces_expected)
    ELSE IF ParseUsize(At(c, k)) # Nothing THEN
        FacesLoop(c, k + 1, data, ParseUsize(At(c, k))[1])
    ELSE FacesLoop(c, k + 1, data, num_faces_expected)

parse_faces(c) == FacesLoop(c, 0, <<>>, 0)

\* the loop of parse_points from line k on
RECURSIVE PointsLoop(_, _, _, _)
PointsLoop(c, k, data, num_points_expected) ==
    IF k >= Len(c) THEN
        IF Len(data) # num_points_expected
        THEN CountError(num_points_expected, Len(data))
        ELSE Ret(data)
    ELSE IF num_points_expected > 0 THEN
        IF ~BracketShape(At(c, k)) THEN PointsLoop(c, k + 1, data, num_points_expected)
        ELSE IF ParsePoint3(At(c, k)) # Nothing
        THEN PointsLoop(c, k + 1, Append(data, ParsePoint3(At(c, k))[1]),
                        num_points_expected)
        ELSE LineError(k)
    ELSE IF ParseUsize(At(c, k)) # Nothing THEN
        PointsLoop(c, k + 1, data, ParseUsize(At(c, k))[1])
    ELSE PointsLoop(c, k + 1, data, num_points_expected)

parse_points(c) == PointsLoop(c, 0, <<>>, 0)

\* no mesh is being built
MeshIdle ==
    /\ mesh_pc = "off" /\ boundary = <<>> /\ faces_len = 0 /\ owners = <<>>
    /\ neighbors_read = <<>> /\ neighbors = <<>> /\ cell_faces = <<>>
    /\ cell_neighbors = <<>> /\ num_inner_faces = 0 /\ num_cells = 0

ListInit ==
    /\ MeshIdle
    /\ BdIdle
    /\ FieldIdle
    /\ list_pc = "input"
    /\ content \in SeqsUpTo(ListLines, MaxLines)
    /\ list_result = <<>>

Returned(reader, r) ==
    /\ list_pc = "input"
    /\ list_pc' = reader
    /\ list_result' = r
    /\ UNCHANGED <<content, meshVars, bdVars, fieldVars>>

ParseOwners == Returned("scalars_usize", parse_scalars("usize", content))

ParseNeighbours == Returned("scalars_i64", parse_scalars("i64", content))

ParseFaces == Returned("faces", parse_faces(content))

ParsePoints == Returned("points", parse_points(content))

ListNext == ParseOwners \/ ParseNeighbours \/ ParseFaces \/ ParsePoints

SpecList == ListInit /\ [][ListNext]_vars

----------------------------------------------------------------------------
(* The boundary reader: parse_boundary *)

\* The lines of the boundary files considered.  The loop reads every line of
\* content at most once (the lines it looks ahead at are stepped over), so a
\* line is chosen when the loop reads it.
BoundaryLines ==
    {"2", "(", ")", "  )", "", "{", "}", "a", "b",
     "type wall;", "type patch;", "nFaces 1;", "nFaces 2;", "startFace 1;",
     "nFaces 1", "nFaces x;"}

\* line.trim().parse::<i64>()
IsInteger(line) == line = "2"
\* line.starts_with('(')
StartsWithOpen(line) == line = "("
\* line.starts_with(')')
StartsWithClose(line) == line = ")"
\* line.trim().is_empty()
IsBlank(line) == line = ""
\* line.trim()
Trim(line) == IF line = "  )" THEN ")" ELSE line

ContainsNFaces(line) == line \in {"nFaces 1;", "nFaces 2;", "nFaces 1", "nFaces x;"}
ContainsStartFace(line) == line = "startFace 1;"
ContainsType(line) == line \in {"type wall;", "type patch;"}

\* get_val(line): the second word without its ';', or an error
get_val(line) ==
    CASE line = "type wall;" -> Some("wall")
      [] line = "type patch;" -> Some("patch")
      [] line = "nFaces 1;" -> Some("1")
      [] line = "nFaces 2;" -> Some("2")
      [] line = "nFaces x;" -> Some("x")
      [] line = "startFace 1;" -> Some("1")
      [] OTHER -> Nothing

\* get_parsed_val::<usize>(line)
get_parsed_val(line) ==
    IF get_val(line) = Nothing THEN Nothing
    ELSE CASE get_val(line)[1] = "1" -> Some(1)
           [] get_val(line)[1] = "2" -> Some(2)
           [] OTHER -> Nothing

\* bd.insert(current_patch, Boundary{ ..., boundary_id: -10-bid })
\* with the id counted up from the first one
InsertPatch_CountUp(m, name, t, n, s, b) ==
    [x \in DOMAIN m \cup {name} |->
        IF x = name THEN Boundary(t, n, s, FirstBoundaryId + b) ELSE m[x]]

InsertPatch(m, name, t, n, s, b) ==
    [x \in DOMAIN m \cup {name} |->
        IF x = name THEN Boundary(t, n, s, FirstBoundaryId - b) ELSE m[x]]

\* the locals of parse_boundary
BdState ==
    [bd_pc |-> bd_pc, i |-> i, bd |-> bd, in_boundary_field |-> in_boundary_field,
     in_patch_field |-> in_patch_field, current_patch |-> current_patch,
     current_type |-> current_type, current_num_faces |-> current_num_faces,
     current_start_face |-> current_start_face, bid |-> bid, declared |-> declared]

BdSet(st) ==
    /\ bd_pc' = st.bd_pc
    /\ i' = st.i
    /\ bd' = st.bd
    /\ in_boundary_field' = st.in_boundary_field
    /\ in_patch_field' = st.in_patch_field
    /\ current_patch' = st.current_patch
    /\ current_type' = st.current_type
    /\ current_num_faces' = st.current_num_faces
    /\ current_start_face' = st.current_start_face
    /\ bid' = st.bid
    /\ declared' = st.declared
    /\ UNCHANGED <<content_len, meshVars, listVars, fieldVars>>

End(st, how) == [st EXCEPT !.bd_pc = how]

\* the look-ahead past line i for a line that `opens` (content[i+1], or
\* content[i+2] after a blank content[i+1]); l1 and l2 are these two lines
LookAhead(st, opens1, l1, opens2, l2, missing) ==
    IF st.i + 1 >= content_len THEN End(st, "abort")
    ELSE IF opens1 THEN [st EXCEPT !.i = @ + 2]
    ELSE IF ~IsBlank(l1) THEN End(st, missing)
    ELSE IF st.i + 2 >= content_len THEN End(st, "abort")
    ELSE IF opens2 THEN [st EXCEPT !.i = @ + 3]
    ELSE End(st, missing)

\* a line of a patch: its '}', or one of its key/value lines
InPatchLine(st, line) ==
    IF Trim(line) = "}" THEN
        [st EXCEPT !.in_patch_field = FALSE,
                   !.bd = InsertPatch(st.bd, st.current_patch, st.current_type,
                                      st.current_num_faces, st.current_start_face,
                                      st.bid),
                   !.bid = @ + 1,
                   !.current_patch = "",
                   !.i = @ + 1]
    ELSE IF ContainsNFaces(line) THEN
        IF get_parsed_val(line) = Nothing THEN End(st, "err_value")
        ELSE [st EXCEPT !.current_num_faces = get_parsed_val(line)[1],
                        !.declared = @ \cup {"nFaces"}, !.i = @ + 1]
    ELSE IF ContainsStartFace(line) THEN
        IF get_parsed_val(line) = Nothing THEN End(st, "err_value")
        ELSE [st EXCEPT !.current_start_face = get_parsed_val(line)[1],
                        !.declared = @ \cup {"startFace"}, !.i = @ + 1]
    ELSE IF ContainsType(line) THEN
        IF get_val(line) = Nothing THEN End(st, "err_value")
        ELSE [st EXCEPT !.current_type = get_val(line)[1],
                        !.declared = @ \cup {"type"}, !.i = @ + 1]
    ELSE [st EXCEPT !.i = @ + 1]

\* one turn of the loop at line content[i] = line, with l1 = content[i+1] and
\* l2 = content[i+2] where the turn looks ahead
LoopTurn(st, line, l1, l2) ==
    IF ~st.in_boundary_field /\ IsInteger(line) THEN
        LookAhead([st EXCEPT !.in_boundary_field = TRUE],
                  StartsWithOpen(l1), l1, StartsWithOpen(l2), l2, "err_paren")
    ELSE IF ~st.in_boundary_field THEN [st EXCEPT !.i = @ + 1]
    ELSE IF StartsWithClose(line) THEN End(st, "ok")
    ELSE IF st.in_patch_field THEN InPatchLine(st, line)
    ELSE IF IsBlank(line) THEN [st EXCEPT !.i = @ + 1]
    ELSE LookAhead([st EXCEPT !.current_patch = Trim(line), !.in_patch_field = TRUE,
                              !.declared = {}],
                   Trim(l1) = "{", l1, Trim(l2) = "{", l2, "err_brace")

\* the turn at this line looks at the lines after it
LooksAhead(st, line) ==
    \/ ~st.in_boundary_field /\ IsInteger(line)
    \/ /\ st.in_boundary_field /\ ~StartsWithClose(line)
       /\ ~st.in_patch_field /\ ~IsBlank(line)

BdInit ==
    /\ MeshIdle
    /\ ListIdle
    /\ FieldIdle
    /\ bd_pc = "run"
    /\ content_len \in 0..MaxBoundaryLines
    /\ i = 0
    /\ bd = <<>>
    /\ in_boundary_field = FALSE
    /\ in_patch_field = FALSE
    /\ current_patch = ""
    /\ current_type = ""
    /\ current_num_faces = 0
    /\ current_start_face = 0
    /\ bid = 0
    /\ declared = {}

\* one turn of `loop { ... }`
Loop ==
    /\ bd_pc = "run"
    /\ IF i > content_len THEN BdSet(End(BdState, "err_eof"))
       ELSE IF i >= content_len THEN BdSet(End(BdState, "abort"))
       ELSE \E line \in BoundaryLines :
              IF LooksAhead(BdState, line)
              THEN \E l1, l2 \in BoundaryLines : BdSet(LoopTurn(BdState, line, l1, l2))
              ELSE BdSet(LoopTurn(BdState, line, "", ""))

BdNext == Loop

SpecBoundary == BdInit /\ [][BdNext]_vars

----------------------------------------------------------------------------
(* The field reader: parse_internal_field *)

\* the lines of the field files considered
FieldLines ==
    {"internalField nonuniform List<vector>", "internalField uniform (0 0 0);",
     "internalField uniform 0;", "internalField uniform );(", "internalField;",
     "2", "3", "(", "(0 0 0)", "(1 0 0)", "(0 0)", ")"}

\* the element decoders a field is read with
Decoders == {"parse_point3", "parse_vector3"}

FieldError(msg) == <<"err", msg>>

\* line.starts_with("internalField")
StartsWithInternalField(line) ==
    line \in {"internalField nonuniform List<vector>", "internalField uniform (0 0 0);",
              "internalField uniform 0;", "internalField uniform );(", "internalField;"}

\* line.contains("nonuniform")
ContainsNonuniform(line) == line = "internalField nonuniform List<vector>"

\* line.contains("uniform")
ContainsUniform(line) ==
    line \in {"internalField nonuniform List<vector>", "internalField uniform (0 0 0);",
              "internalField uniform 0;", "internalField uniform );("}

\* line.find('('): the byte offset of the first '('
FindOpen(line) ==
    CASE line = "internalField uniform (0 0 0);" -> Some(22)
      [] line = "internalField uniform );(" -> Some(24)
      [] line \in {"(", "(0 0 0)", "(1 0 0)", "(0 0)"} -> Some(0)
      [] OTHER -> Nothing

\* line.find(')'): the byte offset of the first ')'
FindClose(line) ==
    CASE line = "internalField uniform (0 0 0);" -> Some(28)
      [] line = "internalField uniform );(" -> Some(22)
      [] line \in {"(0 0 0)", "(1 0 0)"} -> Some(6)
      [] line = "(0 0)" -> Some(4)
      [] line = ")" -> Some(0)
      [] OTHER -> Nothing

\* line[from..to].split(' '): the pieces between the two offsets
SplitSlice(line, from, to) ==
    CASE line = "internalField uniform (0 0 0);" /\ from = 23 /\ to = 28 -> <<"0", "0", "0">>
      [] line \in {"(0 0 0)", "(1 0 0)"} /\ from = 1 /\ to = 6 ->
             <<IF line = "(1 0 0)" THEN "1" ELSE "0", "0", "0">>
      [] line = "(0 0)" /\ from = 1 /\ to = 4 -> <<"0", "0">>
      [] OTHER -> <<"">>

\* s.parse::<T>() for the float type T of a field
ParseFloat(s) ==
    CASE s = "0" -> Some(0) [] s = "1" -> Some(1) [] s = "2" -> Some(2)
      [] s = "3" -> Some(3)
      [] OTHER -> Nothing

\* s.strip_prefix("(")?.strip_suffix(")")?.split(' ')
StripBrackets(s) ==
    CASE s = "(0 0 0)" -> Some(<<"0", "0", "0">>)
      [] s = "(1 0 0)" -> Some(<<"1", "0", "0">>)
      [] s = "(0 0)" -> Some(<<"0", "0">>)
      [] OTHER -> Nothing

\* .filter_map(|s| s.parse::<T>().ok()).collect()
RECURSIVE ParsedFloats(_)
ParsedFloats(toks) ==
    IF toks = <<>> THEN <<>>
    ELSE LET rest == ParsedFloats(Tail(toks))
         IN  IF ParseFloat(Head(toks)) # Nothing
             THEN <<ParseFloat(Head(toks))[1]>> \o rest
             ELSE rest

parse_vals_from_brackets(s) ==
    IF StripBrackets(s) = Nothing THEN Nothing
    ELSE Some(ParsedFloats(StripBrackets(s)[1]))

parse_point3(s) ==
    LET vals == parse_vals_from_brackets(s)
    IN  IF vals = Nothing THEN Nothing
        ELSE IF Len(vals[1]) # 3 THEN Nothing
        ELSE Some(<<"Point3", vals[1][1], vals[1][2], vals[1][3]>>)

parse_vector3(s) ==
    LET vals == parse_vals_from_brackets(s)
    IN  IF vals = Nothing THEN Nothing
        ELSE IF Len(vals[1]) # 3 THEN Nothing
        ELSE Some(<<"Vector3", vals[1][1], vals[1][2], vals[1][3]>>)

\* parse_fn(s)
Decode(parse_fn, s) == IF parse_fn = "parse_point3" THEN parse_point3(s) ELSE parse_vector3(s)

\* .filter_map(|s| parse_fn(s)).collect(), and the push loop of the
\* nonuniform reader: the decoded pieces, in order
RECURSIVE Decoded(_, _)
Decoded(parse_fn, pieces) ==
    IF pieces = <<>> THEN <<>>
    ELSE LET rest == Decoded(parse_fn, Tail(pieces))
         IN  IF Decode(parse_fn, Head(pieces)) # Nothing
             THEN <<Decode(parse_fn, Head(pieces))[1]>> \o rest
             ELSE rest

parse_internal_field_data_uniform(line, parse_fn) ==
    LET start == FindOpen(line)
        end == FindClose(line)
    IN  IF start # Nothing /\ end # Nothing THEN
            IF start[1] + 1 > end[1] THEN Aborted
            ELSE Ret(Decoded(parse_fn, SplitSlice(line, start[1] + 1, end[1])))
        ELSE FieldError("malformed uniform data line")

parse_internal_field_data_nonuniform(c, start, parse_fn) ==
    IF start + 1 >= Len(c) THEN Aborted
    ELSE IF ParseUsize(At(c, start + 1)) # Nothing THEN
        LET num_vals_expected == ParseUsize(At(c, start + 1))[1]
        IN  IF num_vals_expected + start > Len(c)
            THEN FieldError("shorter than declared")
            ELSE IF start + 3 + num_vals_expected > Len(c) THEN Aborted
            ELSE LET data == Decoded(parse_fn,
                                     SubSeq(c, start + 4, start + 3 + num_vals_expected))
                 IN  IF Len(data) # num_vals_expected
                     THEN FieldError("values expected, but parsed")
                     ELSE Ret(data)
    ELSE FieldError("number of expected values not given")

\* the loop of parse_internal_field from line k on
RECURSIVE FieldLoop(_, _, _)
FieldLoop(c, k, parse_fn) ==
    IF k >= Len(c) THEN FieldError("did not find any data")
    ELSE IF ~StartsWithInternalField(At(c, k)) THEN FieldLoop(c, k + 1, parse_fn)
    ELSE IF ContainsNonuniform(At(c, k))
    THEN parse_internal_field_data_nonuniform(c, k, parse_fn)
    ELSE IF ContainsUniform(At(c, k))
    THEN parse_internal_field_data_uniform(At(c, k), parse_fn)
    ELSE FieldError("not defined as either uniform or nonuniform")

parse_internal_field(c, parse_fn) == FieldLoop(c, 0, parse_fn)

FieldInit ==
    /\ MeshIdle
    /\ ListIdle
    /\ BdIdle
    /\ field_pc = "input"
    /\ field_content \in SeqsUpTo(FieldLines, MaxFieldLines)
    /\ field_result = <<>>

ReadField(parse_fn) ==
    /\ field_pc = "input"
    /\ field_pc' = parse_fn
    /\ field_result' = parse_internal_field(field_content, parse_fn)
    /\ UNCHANGED <<field_content, meshVars, listVars, bdVars>>

ReadPoints == ReadField("parse_point3")

ReadVectors == ReadField("parse_vector3")

FieldNext == ReadPoints \/ ReadVectors

SpecField == FieldInit /\ [][FieldNext]_vars

----------------------------------------------------------------------------
(* Properties of a mesh built by FoamMesh::new *)

Built == mesh_pc = "built"

\* the cell and face indices asked about: those of the mesh and some past it
CellIds == 0..(MaxCell + 2)
FaceIds == 0..(MaxFaces + 1)

AllocatedCells == DOMAIN cell_neighbors

HasNegative(s) == \E j \in 1..Len(s) : s[j] < 0

\* face f lies in [start_face, start_face + num_faces) of some patch
InSomePatch(f) ==
    \E n \in DOMAIN boundary :
        boundary[n].start_face <= f /\ f < boundary[n].start_face + boundary[n].num_faces

PatchIds == {boundary[n].boundary_id : n \in DOMAIN boundary}

\* the cell across face f seen from cell c, or the sentinel of a boundary face
OtherSide(c, f) == IF At(owners, f) = c THEN At(neighbors, f) ELSE At(owners, f)

\* C1: for every cell with an adjacency list, is_cell_on_boundary(c, None) is
\* true iff some entry of cell_neighbors[c] is negative, the cell max(owners)
\* included; for a cell index outside the mesh it is false.
C1_BoundaryCellIffNegativeEntry ==
    Built =>
        \A c \in CellIds :
            is_cell_on_boundary(c, None) =
                Ret(IF cell_neighbor_cells(c)[1] = "Some"
                    THEN HasNegative(cell_neighbor_cells(c)[2])
                    ELSE FALSE)

\* C2: num_cells() is max(owners) + 1, the number of allocated cells is
\* max(max(owners) + 1, max(neighbors) + 1), and num_inner_faces() is the
\* length of the neighbour list as read.
C2_Counts ==
    Built =>
        /\ num_cells_get = MaxOf(Range(owners)) + 1
        /\ Cardinality(DOMAIN cell_faces) =
               MaxOf({MaxOf(Range(owners)) + 1, MaxOf(Range(neighbors)) + 1})
        /\ DOMAIN cell_faces = DOMAIN cell_neighbors
        /\ num_inner_faces_get = Len(neighbors_read)

SymmetricAdjacency ==
    \A f \in 0..(Len(owners) - 1) :
        At(neighbors, f) >= 0 =>
            /\ At(neighbors, f) \in Range(cell_neighbors[At(owners, f)])
            /\ At(owners, f) \in Range(cell_neighbors[At(neighbors, f)])
            /\ f \in Range(cell_faces[At(owners, f)])
            /\ f \in Range(cell_faces[At(neighbors, f)])

SameLengths == \A c \in AllocatedCells : Len(cell_faces[c]) = Len(cell_neighbors[c])

\* C4 as stated: the two lists of a cell have the same length, every entry of
\* cell_neighbors[c] is a valid cell index or the boundary_id of a patch of
\* the map, and adjacency is symmetric.
C4_TopologyInvariant ==
    Built =>
        /\ SameLengths
        /\ \A c \in AllocatedCells : \A j \in 1..Len(cell_neighbors[c]) :
              \/ cell_neighbors[c][j] \in AllocatedCells
              \/ cell_neighbors[c][j] \in PatchIds
        /\ SymmetricAdjacency

\* C4 as amended: the two lists of a cell have the same length, every entry of
\* cell_neighbors[c] is a valid cell index or a negative value that is the
\* boundary_id of a patch, the placeholder -10 of a face past the neighbour
\* list that no patch covers, or a negative entry of the neighbour list as
\* read; and adjacency is symmetric.
C4_TopologyInvariantAmended ==
    Built =>
        /\ SameLengths
        /\ \A c \in AllocatedCells : \A j \in 1..Len(cell_neighbors[c]) :
              LET e == cell_neighbors[c][j]
              IN  \/ e \in AllocatedCells
                  \/ e < 0 /\ e \in PatchIds
                  \/ e = Placeholder /\ Len(neighbors_read) < Len(owners)
                  \/ e < 0 /\ e \in Range(neighbors_read)
        /\ SymmetricAdjacency

\* a cell holds the placeholder of an uncovered face next to an internal face
C4_Witness ==
    /\ Built
    /\ Placeholder \notin PatchIds
    /\ \E c \in AllocatedCells :
         /\ Placeholder \in Range(cell_neighbors[c])
         /\ \E j \in 1..Len(cell_neighbors[c]) : cell_neighbors[c][j] >= 0

\* C5 as stated: at every position j, cell_neighbors[c][j] is the cell across
\* face cell_faces[c][j], or that face's boundary sentinel.
C5_ParallelByPosition ==
    Built =>
        \A c \in AllocatedCells :
            /\ Len(cell_faces[c]) = Len(cell_neighbors[c])
            /\ \A j \in 1..Len(cell_faces[c]) :
                  cell_neighbors[c][j] = OtherSide(c, cell_faces[c][j])

\* C5 as amended: the two lists of a cell have the same length and hold the
\* same face-to-neighbour correspondence as multisets: the entries of
\* cell_neighbors[c] are, each as often, the cells across the faces of
\* cell_faces[c] (or their sentinels); the positions need not agree.
C5_ParallelAsMultisets ==
    Built =>
        \A c \in AllocatedCells :
            /\ Len(cell_faces[c]) = Len(cell_neighbors[c])
            /\ SeqToBag(cell_neighbors[c]) =
                  SeqToBag([j \in 1..Len(cell_faces[c]) |-> OtherSide(c, cell_faces[c][j])])

\* a cell whose lists disagree at a position
C5_Witness ==
    /\ Built
    /\ \E c \in AllocatedCells : \E j \in 1..Len(cell_faces[c]) :
          /\ Len(cell_faces[c]) = Len(cell_neighbors[c])
          /\ cell_neighbors[c][j] # OtherSide(c, cell_faces[c][j])

\* C6: boundary_cells(name) of a patch of the map is owners[start_face],
\* ..., owners[start_face + num_faces - 1] in face order; of any other name
\* it is the empty sequence; it is never an error.
C6_BoundaryCells ==
    Built =>
        \A n \in PatchNames :
            LET r == boundary_cells(n)
            IN  /\ r[1] = "ok"
                /\ IF n \in DOMAIN boundary
                   THEN /\ Len(r[2]) = boundary[n].num_faces
                        /\ \A k \in 0..(boundary[n].num_faces - 1) :
                              /\ boundary[n].start_face + k < Len(owners)
                              /\ At(r[2], k) = At(owners, boundary[n].start_face + k)
                   ELSE r[2] = <<>>

\* a patch of two faces owned by different cells
C6_Witness ==
    /\ Built
    /\ \E n \in DOMAIN boundary :
         /\ boundary[n].num_faces = 2
         /\ boundary_cells(n)[1] = "ok"
         /\ At(boundary_cells(n)[2], 0) # At(boundary_cells(n)[2], 1)

----------------------------------------------------------------------------
(* Properties of the list readers *)

ListDone == list_pc \notin {"input", "off"}

\* the index of the first line that parses as a non-negative integer, or -1
RECURSIVE FirstCountLine(_, _)
FirstCountLine(c, k) ==
    IF k >= Len(c) THEN -1
    ELSE IF ParseUsize(At(c, k)) # Nothing THEN k
    ELSE FirstCountLine(c, k + 1)

CountLine == FirstCountLine(content, 0)
DeclaredCount == ParseUsize(At(content, CountLine))[1]
LinesAfterCount == (CountLine + 1)..(Len(content) - 1)

\* the line decodes as an element of the reader's list
WellFormedFace(line) ==
    Len(NumTokens(line)) >= 1 /\ Len(NumTokens(line)) = NumTokens(line)[1] + 1

MalformedFace(line) ==
    Len(NumTokens(line)) >= 1 /\ Len(NumTokens(line)) # NumTokens(line)[1] + 1

IsElement(reader, line) ==
    CASE reader = "scalars_usize" -> ParseUsize(line) # Nothing
      [] reader = "scalars_i64" -> ParseI64(line) # Nothing
      [] reader = "points" -> BracketShape(line) /\ ParsePoint3(line) # Nothing
      [] reader = "faces" -> WellFormedFace(line)

ElementsAfterCount ==
    Cardinality({k \in LinesAfterCount : IsElement(list_pc, At(content, k))})

\* C8: the first line that parses as a non-negative integer is the declared
\* count N, N = 0 included; a successful result has length N, and a file whose
\* declared count differs from the number of decoded elements never gives a
\* successful result.
C8_ResultLengthIsDeclaredCount ==
    (ListDone /\ CountLine >= 0) =>
        /\ list_result[1] = "ok" => Len(list_result[2]) = DeclaredCount
        /\ DeclaredCount # ElementsAfterCount => list_result[1] # "ok"

\* the faces of the well-formed lines among the lines k.. of the file, in order
RECURSIVE FacesFrom(_, _)
FacesFrom(c, k) ==
    IF k >= Len(c) THEN <<>>
    ELSE IF WellFormedFace(At(c, k))
         THEN <<Tail(NumTokens(At(c, k)))>> \o FacesFrom(c, k + 1)
         ELSE FacesFrom(c, k + 1)

\* C9: of the lines after the count line, one with numeric tokens k, v1..vk
\* adds the face v1..vk in that order, one whose token count is not its first
\* token plus 1 fails the read with a structural error, and one without
\* numeric tokens adds nothing.
C9_FaceLinesKeepOrder ==
    (list_pc = "faces" /\ CountLine >= 0) =>
        LET bad == {k \in LinesAfterCount : MalformedFace(At(content, k))}
        IN  IF bad # {}
            THEN list_result = LineError(CHOOSE k \in bad : \A m \in bad : k <= m)
            ELSE /\ list_result[1] # "malformed_line"
                 /\ list_result[1] = "ok" =>
                        list_result[2] = FacesFrom(content, CountLine + 1)

----------------------------------------------------------------------------
(* Properties of the boundary reader *)

IdsOf(m) == {m[n].boundary_id : n \in DOMAIN m}

\* C7: the patch finalized i-th (counting from 0) is given the boundary_id
\* -10 - i, so a file of k patches is given exactly -10, ..., -10 - (k - 1) in
\* file order; the ids of the map are pairwise distinct and all negative.
C7_BoundaryIdsInFileOrder ==
    /\ [](/\ \A n \in DOMAIN bd : bd[n].boundary_id < 0
          /\ \A n, m \in DOMAIN bd : n # m => bd[n].boundary_id # bd[m].boundary_id
          /\ IdsOf(bd) \subseteq {FirstBoundaryId - j : j \in 0..(bid - 1)}
          /\ Cardinality(DOMAIN bd) = bid =>
                IdsOf(bd) = {FirstBoundaryId - j : j \in 0..(bid - 1)})
    /\ [][(in_patch_field /\ ~in_patch_field') =>
            /\ bid' = bid + 1
            /\ current_patch \in DOMAIN bd'
            /\ bd'[current_patch].boundary_id = -10 - bid
            /\ \A n \in DOMAIN bd \ {current_patch} : bd'[n] = bd[n]]_vars
    /\ [][bid' # bid => (in_patch_field /\ ~in_patch_field')]_vars

\* a file of two patches has been read to its end
C7_Witness ==
    /\ bd_pc = "ok"
    /\ bid = 2
    /\ IdsOf(bd) = {-10, -11}

\* C10: when the lines run out before the terminal ')' line, the read ends
\* with the error "unexpected end of file": it never aborts, and it returns a
\* patch map only from a ')' line of the input.
C10_EndOfInputIsAnError ==
    /\ bd_pc # "abort"
    /\ bd_pc = "ok" => i < content_len
    /\ (bd_pc # "run" /\ i >= content_len) => bd_pc = "err_eof"

----------------------------------------------------------------------------
(* Totality of FoamMesh::new *)

\* no field of a mesh has been built
NoMesh ==
    /\ neighbors = <<>> /\ cell_faces = <<>> /\ cell_neighbors = <<>>
    /\ num_inner_faces = 0 /\ num_cells = 0

\* C13: over every combination of parsed owners, neighbours, faces, points
\* and patches (an empty owner list, a neighbour list longer than the owner
\* list and a patch that reaches past the faces included) FoamMesh::new
\* returns a complete mesh or an error value: it never aborts, and a failure
\* leaves no part of a mesh.
C13_NewIsTotal ==
    /\ mesh_pc \in {"input", "built", "err"}
    /\ mesh_pc = "err" => NoMesh
    /\ mesh_pc = "built" =>
           /\ Len(neighbors) = Len(owners)
           /\ DOMAIN cell_faces = DOMAIN cell_neighbors

----------------------------------------------------------------------------
(* The values of a patch record *)

\* the patch the last '}' line has recorded
LastRecorded == CHOOSE n \in DOMAIN bd : bd[n].boundary_id = FirstBoundaryId - (bid - 1)

\* C14: a patch record holds only values that lines of the patch's own block
\* declare: a key the block leaves out has the value the accumulators start
\* with, never the one a line of an earlier patch gave it; and the map holds a
\* record only for a block whose '}' line has been read.
C14_RecordHoldsOwnValuesOnly ==
    /\ (bid > 0 /\ ~in_patch_field) =>
           /\ "type" \notin declared => bd[LastRecorded].boundary_type = ""
           /\ "nFaces" \notin declared => bd[LastRecorded].num_faces = 0
           /\ "startFace" \notin declared => bd[LastRecorded].start_face = 0
    /\ \A n \in DOMAIN bd : bd[n].boundary_id \in {FirstBoundaryId - j : j \in 0..(bid - 1)}

----------------------------------------------------------------------------
(* Properties of the field reader *)

FieldDone == field_pc \in Decoders

\* the position (from 1) of the first line that starts with internalField,
\* 0 when there is none
FirstDeclaration(c) ==
    IF \E k \in 1..Len(c) : StartsWithInternalField(c[k])
    THEN CHOOSE k \in 1..Len(c) :
             /\ StartsWithInternalField(c[k])
             /\ \A j \in 1..(k - 1) : ~StartsWithInternalField(c[j])
    ELSE 0

Declaration == FirstDeclaration(field_content)

\* the declaration is nonuniform and the line after it declares a count
DeclaresCount ==
    /\ Declaration > 0
    /\ ContainsNonuniform(field_content[Declaration])
    /\ Declaration < Len(field_content)
    /\ ParseUsize(field_content[Declaration + 1]) # Nothing

DeclaredValues == ParseUsize(field_content[Declaration + 1])[1]

\* the lines left for the data: those after the declaration, the count line
\* and the line of the opening bracket
DataLinesLeft ==
    IF Len(field_content) >= Declaration + 2
    THEN Len(field_content) - (Declaration + 2) ELSE 0

\* the declared data lines (those of them the file holds)
DataLines ==
    SubSeq(field_content, Declaration + 3,
           IF DataLinesLeft < DeclaredValues THEN Len(field_content)
           ELSE Declaration + 2 + DeclaredValues)

\* C11: a nonuniform field with declared count M is read to an error value
\* (never an abort, never a shorter sequence) when fewer than M data lines
\* remain or when the number of decoded values differs from M; to exactly the
\* M decoded values in file order otherwise.  A file without an internalField
\* line, or whose internalField line has neither keyword, is read to an error.
C11_NonuniformShortOrMiscountedIsAnError ==
    FieldDone =>
        /\ Declaration = 0 => field_result[1] = "err"
        /\ (Declaration > 0 /\ ~ContainsUniform(field_content[Declaration]))
               => field_result[1] = "err"
        /\ DeclaresCount =>
             /\ field_result # Aborted
             /\ DataLinesLeft < DeclaredValues => field_result[1] = "err"
             /\ Len(Decoded(field_pc, DataLines)) # DeclaredValues
                    => field_result[1] = "err"
             /\ field_result[1] = "ok" =>
                    /\ Len(field_result[2]) = DeclaredValues
                    /\ field_result[2] = Decoded(field_pc, DataLines)

\* the data line that holds the value of a uniform declaration
UniformValueLine(line) ==
    IF line = "internalField uniform (0 0 0);" THEN "(0 0 0)" ELSE ""

\* the nonuniform declaration of the same data: count 1 and one data line
EquivalentNonuniform(line) ==
    <<"internalField nonuniform List<vector>", "1", "(", UniformValueLine(line), ")">>

\* C12: a uniform declaration `internalField uniform (x y z);` is read to the
\* one-element sequence holding the decoded (x, y, z), the same sequence the
\* nonuniform declaration with count 1 and the data line `(x y z)` is read to.
C12_UniformEqualsNonuniform ==
    (/\ FieldDone
     /\ Declaration > 0
     /\ UniformValueLine(field_content[Declaration]) # "")
        => /\ field_result =
                Ret(<<Decode(field_pc, UniformValueLine(field_content[Declaration]))[1]>>)
           /\ field_result =
                parse_internal_field(EquivalentNonuniform(field_content[Declaration]),
                                     field_pc)

====
